---- MODULE Spec2Model ----
(***************************************************************************)
(* Model of the baronette-api user-account service:                        *)
(*   models/userModel.js        - the credential store (user_list,         *)
(*                                admin_list, bcrypt hashing)              *)
(*   controllers/userController.js - loginUser and checkAdmin              *)
(* Every pool.query is one atomic step of the database.  A request         *)
(* handler is two steps: the awaited query, then the continuation that     *)
(* builds the HTTP response.                                               *)
(***************************************************************************)
EXTENDS Integers, Sequences, FiniteSets, TLC

VARIABLES
    user_list,    \* rows of public.user_list
    admin_list,   \* user_id values of public.admin_list
    id_seq,       \* next value of the user_list.id sequence
    ret,          \* what the userModel call of the last step returned or threw
    pc,           \* per request handler: "idle", "login", "admin"
    body,         \* per request handler: req.body
    awaited,      \* per request handler: settled value of the awaited query
    queries,      \* per request handler: queries issued by the current call
    sent,         \* the response written by the last step, and by whom
    hist,         \* history: id -> plaintext last supplied and by which call,
                  \*   and the last call that set the verified flag
    seen          \* history: per handler, the row and hist at its lookup

vars == <<user_list, admin_list, id_seq, ret, pc, body, awaited, queries,
          sent, hist, seen>>

store == <<user_list, admin_list, id_seq>>
handlers == <<pc, body, awaited, queries, seen>>

-----------------------------------------------------------------------------
(* Bounds and input domains *)

MaxUsers == 2

Ids == 1..MaxUsers
NULL == "NULL"
Usernames == {"alice", "bob"}
Emails == {"a@x.es", "b@x.es"}
FirstNames == {"Ana", "Eva"}
LastNames1 == {"Gil", "Paz"}
LastNames2 == {"Ruiz", "Sanz"}
Plain == {<<"correct">>, <<"wrong">>}
Salts == {"s1", "s2"}
Procs == {"r1", "r2"}

-----------------------------------------------------------------------------
(* bcrypt *)

SaltRounds == 10

\* bcrypt.hash(password, 10) with the salt the call drew: the string
\* "$2b$" cost "$" salt digest, the digest being a function of salt and
\* password.
Hash(password, salt) ==
    <<"$2b$", SaltRounds, salt, <<salt, password>>>>

\* bcrypt.compare(password, hashedPassword): re-hash the password with the
\* salt read out of the stored hash and compare the two strings.
verifyPassword(password, hashedPassword) ==
    /\ Len(hashedPassword) = 4
    /\ hashedPassword[1] = "$2b$"
    /\ Hash(password, hashedPassword[3]) = hashedPassword

-----------------------------------------------------------------------------
(* Values *)

null == <<>>                      \* JavaScript null: no row
none == [threw |-> FALSE, called |-> FALSE]   \* the step called no mutation
void == [threw |-> FALSE]         \* a call that resolved with no value
thrown == [threw |-> TRUE]        \* a call that rejected
Result(n) == [threw |-> FALSE, rowCount |-> n]   \* a pg result object
NoHist == [pw |-> <<>>, by |-> "none", gate |-> "none"]

\* userData of createUser; a client may put any extra key in it.
UserData == [first_name : FirstNames, last_name_1 : LastNames1,
             last_name_2 : LastNames2, username : Usernames,
             user_password : Plain, email : Emails, verified : BOOLEAN]

\* updatedInfo of updateUserById; NULL stands for a key that is absent,
\* undefined or null (pg sends all three as SQL NULL).
UpdatedInfo == [first_name : FirstNames \cup {NULL},
                last_name1 : LastNames1 \cup {NULL},
                last_name2 : LastNames2 \cup {NULL},
                email : Emails \cup {NULL}]

-----------------------------------------------------------------------------
(* The database *)

\* Column default of user_list.verified.
VerifiedDefault == FALSE

\* UNIQUE (username), UNIQUE (email) on user_list.
UniquenessViolation(rows, username, email) ==
    \E u \in rows : u.username = username \/ u.email = email

COALESCE(a, b) == IF a # NULL THEN a ELSE b

IdsOf(rows) == {u.id : u \in rows}

\* SELECT * FROM user_list WHERE username = $1, then rows[0] || null
findUserByUsername(username) ==
    LET rows == {u \in user_list : u.username = username}
    IN  IF rows = {} THEN null ELSE CHOOSE u \in rows : TRUE

\* SELECT * FROM admin_list WHERE user_id = $1, then rows.length > 0
checkIfAdmin(user_id) == user_id \in admin_list

\* History: call `by` set the verified flag of the rows `hit`.
Gate(hit, by) ==
    [i \in DOMAIN hist |-> IF i \in IdsOf(hit)
                           THEN [hist[i] EXCEPT !.gate = by] ELSE hist[i]]

-----------------------------------------------------------------------------
(* userModel: one action per exported mutation.  fail = the query rejects. *)

\* Mutant: the INSERT stores the password as it was submitted.
createUser_plaintext(userData, salt, fail) ==
    /\ id_seq <= MaxUsers
    /\ LET row == [id |-> id_seq,
                   first_name |-> userData.first_name,
                   last_name_1 |-> userData.last_name_1,
                   last_name_2 |-> userData.last_name_2,
                   username |-> userData.username,
                   user_password |-> userData.user_password,
                   email |-> userData.email,
                   verified |-> VerifiedDefault]
       IN  IF fail \/ UniquenessViolation(user_list, userData.username,
                                          userData.email)
           THEN /\ ret' = thrown
                /\ UNCHANGED <<user_list, id_seq, hist>>
           ELSE /\ user_list' = user_list \cup {row}
                /\ id_seq' = id_seq + 1
                /\ hist' = [hist EXCEPT ![row.id] =
                              [pw |-> userData.user_password,
                               by |-> "createUser", gate |-> "createUser"]]
                /\ ret' = void
    /\ UNCHANGED <<admin_list, handlers>>
    /\ sent' = null

createUser(userData, salt, fail) ==
    /\ id_seq <= MaxUsers
    /\ LET hashedPassword == Hash(userData.user_password, salt)
           row == [id |-> id_seq,
                   first_name |-> userData.first_name,
                   last_name_1 |-> userData.last_name_1,
                   last_name_2 |-> userData.last_name_2,
                   username |-> userData.username,
                   user_password |-> hashedPassword,
                   email |-> userData.email,
                   verified |-> VerifiedDefault]
       IN  IF fail \/ UniquenessViolation(user_list, userData.username,
                                          userData.email)
           THEN /\ ret' = thrown
                /\ UNCHANGED <<user_list, id_seq, hist>>
           ELSE /\ user_list' = user_list \cup {row}
                /\ id_seq' = id_seq + 1
                /\ hist' = [hist EXCEPT ![row.id] =
                              [pw |-> userData.user_password,
                               by |-> "createUser", gate |-> "createUser"]]
                /\ ret' = void
    /\ UNCHANGED <<admin_list, handlers>>
    /\ sent' = null

\* Mutant: the UPDATE has no WHERE clause.
verifyUsers_all(usernames, fail) ==
    /\ IF fail
       THEN /\ ret' = thrown
            /\ UNCHANGED <<user_list, hist>>
       ELSE /\ user_list' = {[u EXCEPT !.verified = TRUE] : u \in user_list}
            /\ hist' = Gate({u \in user_list : u.username \in usernames},
                            "verifyUsers")
            /\ ret' = void
    /\ UNCHANGED <<admin_list, id_seq, handlers>>
    /\ sent' = null

verifyUsers(usernames, fail) ==
    /\ IF fail
       THEN /\ ret' = thrown
            /\ UNCHANGED <<user_list, hist>>
       ELSE /\ user_list' = {IF u.username \in usernames
                             THEN [u EXCEPT !.verified = TRUE]
                             ELSE u : u \in user_list}
            /\ hist' = Gate({u \in user_list : u.username \in usernames},
                            "verifyUsers")
            /\ ret' = void
    /\ UNCHANGED <<admin_list, id_seq, handlers>>
    /\ sent' = null

\* Removing rows also drops their history.
Forget(gone) ==
    hist' = [i \in DOMAIN hist |-> IF i \in gone THEN NoHist ELSE hist[i]]

deleteUserById(userId, fail) ==
    /\ IF fail
       THEN /\ ret' = thrown
            /\ UNCHANGED <<user_list, hist>>
       ELSE LET hit == {u \in user_list : u.id = userId}
            IN  /\ user_list' = user_list \ hit
                /\ ret' = Result(Cardinality(hit))
                /\ Forget(IdsOf(hit))
    /\ UNCHANGED <<admin_list, id_seq, handlers>>
    /\ sent' = null

deleteUserByUsername(username, fail) ==
    /\ IF fail
       THEN /\ ret' = thrown
            /\ UNCHANGED <<user_list, hist>>
       ELSE LET hit == {u \in user_list : u.username = username}
            IN  /\ user_list' = user_list \ hit
                /\ ret' = Result(Cardinality(hit))
                /\ Forget(IdsOf(hit))
    /\ UNCHANGED <<admin_list, id_seq, handlers>>
    /\ sent' = null

\* Mutant: the UPDATE assigns the parameters without COALESCE.
updateUserById_overwrite(userId, updatedInfo, fail) ==
    /\ LET hit == {u \in user_list : u.id = userId}
           Set(u) == [u EXCEPT
                        !.first_name = updatedInfo.first_name,
                        !.last_name_1 = updatedInfo.last_name1,
                        !.last_name_2 = updatedInfo.last_name2,
                        !.email = updatedInfo.email,
                        !.verified = FALSE]
       IN  IF fail \/ (hit # {} /\ \E u \in user_list \ hit :
                                      u.email = updatedInfo.email)
           THEN /\ ret' = thrown
                /\ UNCHANGED <<user_list, hist>>
           ELSE /\ user_list' = (user_list \ hit) \cup {Set(u) : u \in hit}
                /\ ret' = Result(Cardinality(hit))
                /\ hist' = Gate(hit, "updateUserById")
    /\ UNCHANGED <<admin_list, id_seq, handlers>>
    /\ sent' = null

updateUserById(userId, updatedInfo, fail) ==
    /\ LET hit == {u \in user_list : u.id = userId}
           Set(u) == [u EXCEPT
                        !.first_name = COALESCE(updatedInfo.first_name, @),
                        !.last_name_1 = COALESCE(updatedInfo.last_name1, @),
                        !.last_name_2 = COALESCE(updatedInfo.last_name2, @),
                        !.email = COALESCE(updatedInfo.email, @),
                        !.verified = FALSE]
       IN  IF fail \/ (hit # {} /\ \E u \in user_list \ hit :
                                      u.email = updatedInfo.email)
           THEN /\ ret' = thrown
                /\ UNCHANGED <<user_list, hist>>
           ELSE /\ user_list' = (user_list \ hit) \cup {Set(u) : u \in hit}
                /\ ret' = Result(Cardinality(hit))
                /\ hist' = Gate(hit, "updateUserById")
    /\ UNCHANGED <<admin_list, id_seq, handlers>>
    /\ sent' = null

\* Mutant: the UPDATE also sets verified.
updatePassword_verifies(userId, newPassword, salt, fail) ==
    /\ LET hashedPassword == Hash(newPassword, salt)
           hit == {u \in user_list : u.id = userId}
       IN  IF fail
           THEN /\ ret' = thrown
                /\ UNCHANGED <<user_list, hist>>
           ELSE /\ user_list' = (user_list \ hit) \cup
                      {[u EXCEPT !.user_password = hashedPassword,
                                 !.verified = TRUE] : u \in hit}
                /\ hist' = [i \in DOMAIN hist |->
                              IF i \in IdsOf(hit)
                              THEN [hist[i] EXCEPT !.pw = newPassword,
                                                   !.by = "updatePassword"]
                              ELSE hist[i]]
                /\ ret' = void
    /\ UNCHANGED <<admin_list, id_seq, handlers>>
    /\ sent' = null

updatePassword(userId, newPassword, salt, fail) ==
    /\ LET hashedPassword == Hash(newPassword, salt)
           hit == {u \in user_list : u.id = userId}
       IN  IF fail
           THEN /\ ret' = thrown
                /\ UNCHANGED <<user_list, hist>>
           ELSE /\ user_list' = (user_list \ hit) \cup
                      {[u EXCEPT !.user_password = hashedPassword] : u \in hit}
                /\ hist' = [i \in DOMAIN hist |->
                              IF i \in IdsOf(hit)
                              THEN [hist[i] EXCEPT !.pw = newPassword,
                                                   !.by = "updatePassword"]
                              ELSE hist[i]]
                /\ ret' = void
    /\ UNCHANGED <<admin_list, id_seq, handlers>>
    /\ sent' = null

-----------------------------------------------------------------------------
(* userController: a handler runs up to its await, the database answers,   *)
(* and the continuation writes the response.                               *)

Fulfilled(v) == [state |-> "fulfilled", value |-> v]
Rejected == [state |-> "rejected"]
NoSeen == [hist |-> NoHist, row |-> null]

Json(status, message) == [status |-> status, message |-> message]

\* Lines 15-40 of loginUser: what it answers once the lookup has settled.
LoginResponse(settled, password) ==
    IF settled.state = "rejected"
    THEN Json(500, "Error durante el acceso")
    ELSE LET user == settled.value
         IN  IF user = null
             THEN Json(404, "Usuario no encontrado")
             ELSE IF ~(user.user_password = password)
             THEN Json(401, "Contrasena incorrecta")
             ELSE IF ~user.verified
             THEN Json(403, "Usuario sin verificar. Un administrador te validara pronto.")
             ELSE [status |-> 200, message |-> "Acceso correcto!",
                   user_id |-> user.id]

\* Mutant: a failed query is answered like an absent membership.
AdminResponse_swallow(settled) ==
    IF settled.state = "fulfilled" /\ settled.value
    THEN Json(200, "Entrando en ajustes como administrador")
    ELSE Json(200, "Entrando en ajustes de usuario")

\* Lines 55-63 of checkAdmin.
AdminResponse(settled) ==
    IF settled.state = "rejected"
    THEN Json(500, "Internal server error")
    ELSE IF settled.value
    THEN Json(200, "Entrando en ajustes como administrador")
    ELSE Json(200, "Entrando en ajustes de usuario")

\* loginUser up to the await: the lookup query runs.
loginUser(p, b, fail) ==
    /\ pc[p] = "idle"
    /\ pc' = [pc EXCEPT ![p] = "login"]
    /\ body' = [body EXCEPT ![p] = b]
    /\ awaited' = [awaited EXCEPT ![p] =
                     IF fail THEN Rejected
                     ELSE Fulfilled(findUserByUsername(b.username))]
    /\ queries' = [queries EXCEPT ![p] = @ + 1]
    /\ seen' = [seen EXCEPT ![p] =
                  LET user == findUserByUsername(b.username)
                  IN  IF fail \/ user = null THEN NoSeen
                      ELSE [hist |-> hist[user.id], row |-> user]]
    /\ ret' = none
    /\ sent' = null
    /\ UNCHANGED <<store, hist>>

\* Mutant: the continuation reads the table again instead of using the row
\* its lookup returned.
loginUserResume_reread(p) ==
    /\ pc[p] = "login"
    /\ sent' = [by |-> p,
                json |-> LoginResponse(
                            IF awaited[p].state = "rejected" THEN Rejected
                            ELSE Fulfilled(findUserByUsername(body[p].username)),
                            body[p].password)]
    /\ pc' = [pc EXCEPT ![p] = "idle"]
    /\ body' = [body EXCEPT ![p] = null]
    /\ awaited' = [awaited EXCEPT ![p] = null]
    /\ queries' = [queries EXCEPT ![p] = 0]
    /\ seen' = [seen EXCEPT ![p] = NoSeen]
    /\ ret' = none
    /\ UNCHANGED <<store, hist>>

\* loginUser after the await.
loginUserResume(p) ==
    /\ pc[p] = "login"
    /\ sent' = [by |-> p, json |-> LoginResponse(awaited[p], body[p].password)]
    /\ pc' = [pc EXCEPT ![p] = "idle"]
    /\ body' = [body EXCEPT ![p] = null]
    /\ awaited' = [awaited EXCEPT ![p] = null]
    /\ queries' = [queries EXCEPT ![p] = 0]
    /\ seen' = [seen EXCEPT ![p] = NoSeen]
    /\ ret' = none
    /\ UNCHANGED <<store, hist>>

\* checkAdmin up to the await.
checkAdmin(p, b, fail) ==
    /\ pc[p] = "idle"
    /\ pc' = [pc EXCEPT ![p] = "admin"]
    /\ body' = [body EXCEPT ![p] = b]
    /\ awaited' = [awaited EXCEPT ![p] =
                     IF fail THEN Rejected
                     ELSE Fulfilled(checkIfAdmin(b.user_id))]
    /\ queries' = [queries EXCEPT ![p] = @ + 1]
    /\ ret' = none
    /\ sent' = null
    /\ UNCHANGED <<store, hist, seen>>

\* checkAdmin after the await.
checkAdminResume(p) ==
    /\ pc[p] = "admin"
    /\ sent' = [by |-> p, json |-> AdminResponse(awaited[p])]
    /\ pc' = [pc EXCEPT ![p] = "idle"]
    /\ body' = [body EXCEPT ![p] = null]
    /\ awaited' = [awaited EXCEPT ![p] = null]
    /\ queries' = [queries EXCEPT ![p] = 0]
    /\ ret' = none
    /\ UNCHANGED <<store, hist, seen>>

-----------------------------------------------------------------------------
(* Specification *)

AdminBodies == [user_id : Ids]

Init ==
    /\ user_list = {}
    /\ admin_list \in SUBSET Ids
    /\ id_seq = 1
    /\ ret = none
    /\ pc = [p \in Procs |-> "idle"]
    /\ body = [p \in Procs |-> null]
    /\ awaited = [p \in Procs |-> null]
    /\ queries = [p \in Procs |-> 0]
    /\ sent = null
    /\ hist = [i \in Ids |-> NoHist]
    /\ seen = [p \in Procs |-> NoSeen]

-----------------------------------------------------------------------------
(* Inputs.  Each specification draws the callers' inputs from the sets its  *)
(* properties are about and holds the other inputs to one value.           *)

OneName(d) ==
    /\ d.first_name = "Ana" /\ d.last_name_1 = "Gil" /\ d.last_name_2 = "Ruiz"
    /\ d.email = (IF d.username = "alice" THEN "a@x.es" ELSE "b@x.es")

\* Sign-ups that differ in username, password and the stray verified key.
UserDataAuth == {d \in UserData : OneName(d)}
\* Sign-ups that differ in every profile field, one password.
UserDataProfile == {d \in UserData : d.user_password = <<"correct">>
                                     /\ ~d.verified}
\* Sign-ups of one account.
UserDataOne == {d \in UserDataAuth : d.username = "alice"
                                     /\ d.user_password = <<"correct">>
                                     /\ ~d.verified}

NoChange == [first_name |-> NULL, last_name1 |-> NULL, last_name2 |-> NULL,
             email |-> NULL]
\* Profile updates that change no value: nothing supplied, or the first
\* name every sign-up of UserDataAuth has.
UpdatedInfoAuth == {NoChange, [NoChange EXCEPT !.first_name = "Ana"]}

\* Profile updates that supply any subset of the four fields.
UpdatedInfoProfile == [first_name : {NULL, "Eva"}, last_name1 : {NULL, "Paz"},
                       last_name2 : {NULL, "Sanz"}, email : {NULL, "b@x.es"}]

\* Next-state relation over the given inputs and request handlers.
Mutation(UD, UI, PW, SS) ==
    \/ \E d \in UD, s \in SS, f \in BOOLEAN : createUser(d, s, f)
    \/ \E us \in SUBSET Usernames, f \in BOOLEAN : verifyUsers(us, f)
    \/ \E i \in Ids, f \in BOOLEAN : deleteUserById(i, f)
    \/ \E u \in Usernames, f \in BOOLEAN : deleteUserByUsername(u, f)
    \/ \E i \in Ids, d \in UI, f \in BOOLEAN : updateUserById(i, d, f)
    \/ \E i \in Ids, w \in PW, s \in SS, f \in BOOLEAN :
           updatePassword(i, w, s, f)

Login(PP, LB) ==
    \/ \E p \in PP, b \in LB, f \in BOOLEAN : loginUser(p, b, f)
    \/ \E p \in PP : loginUserResume(p)

Admin(PP) ==
    \/ \E p \in PP, b \in AdminBodies, f \in BOOLEAN : checkAdmin(p, b, f)
    \/ \E p \in PP : checkAdminResume(p)

\* Spec: one request handler and every operation, over sign-ups that
\* differ in username and password; user 1 is the administrator.
InitAuth == Init /\ admin_list = {1}

Next ==
    \/ Mutation(UserDataAuth, UpdatedInfoAuth, Plain, {"s1"})
    \/ Login({"r1"}, [username : Usernames,
                      password : Plain \cup {Hash(<<"correct">>, "s1")}])
    \/ Admin({"r1"})

Spec == InitAuth /\ [][Next]_vars

\* SpecProfile: sign-ups and profile updates, over every profile value.
InitStore == Init /\ admin_list = {}

NextProfile ==
    \/ \E d \in UserDataProfile, f \in BOOLEAN : createUser(d, "s1", f)
    \/ \E i \in Ids, d \in UpdatedInfoProfile, f \in BOOLEAN :
           updateUserById(i, d, f)

SpecProfile == InitStore /\ [][NextProfile]_vars

\* SpecHash: the credential store alone, over every password and salt.
NextHash == Mutation(UserDataAuth, UpdatedInfoAuth, Plain, Salts)

SpecHash == InitStore /\ [][NextHash]_vars

\* SpecAdmin: any admin_list; two handlers checking roles and logging in
\* to one account.
NextAdmin ==
    \/ \E d \in UserDataOne, f \in BOOLEAN : createUser(d, "s1", f)
    \/ \E f \in BOOLEAN : verifyUsers({"alice"}, f)
    \/ Login(Procs, [username : {"alice"}, password : {<<"correct">>}])
    \/ Admin(Procs)

SpecAdmin == Init /\ [][NextAdmin]_vars

\* SpecConc: two handlers logging in to one account while it is created,
\* verified, edited, re-keyed and deleted.
NextConc ==
    \/ Mutation(UserDataOne, {NoChange}, {<<"correct">>}, Salts)
    \/ Login(Procs, [username : {"alice"},
                     password : {<<"correct">>, Hash(<<"correct">>, "s1")}])

SpecConc == InitStore /\ [][NextConc]_vars

-----------------------------------------------------------------------------
(* Vocabulary of the properties *)

\* The outcome a response reports.
Outcome(json) ==
    CASE json.status = 404 -> "UserNotFound"
      [] json.status = 401 -> "InvalidPassword"
      [] json.status = 403 -> "NotVerified"
      [] json.status = 200 /\ "user_id" \in DOMAIN json -> "Success"
      [] json.message = "Entrando en ajustes como administrador" -> "IsAdmin"
      [] json.message = "Entrando en ajustes de usuario" -> "IsRegularUser"
      [] OTHER -> "Error"

LoginOutcomes == {"UserNotFound", "InvalidPassword", "NotVerified", "Success"}

\* Handler p answers in this step.
Answers(p, kind) == pc[p] = kind /\ pc'[p] = "idle"

\* Handler p answers a login whose lookup found a row.
AnswersFound(p) ==
    /\ Answers(p, "login")
    /\ awaited[p].state = "fulfilled"
    /\ seen[p].row # null

\* The password handler p submitted is the plaintext last supplied for the
\* account its lookup found.
Correct(p) == body[p].password = seen[p].hist.pw

RowOf(rows, id) == CHOOSE u \in rows : u.id = id

-----------------------------------------------------------------------------
(* C1: a user created with password P and then named by verifyUsers, with  *)
(* no updateUserById, updatePassword or delete since, logs in with P:      *)
(* the answer is Success carrying that user's id.                          *)
C1_LoginSucceeds ==
    [][\A p \in Procs :
          (/\ AnswersFound(p)
           /\ seen[p].hist.by = "createUser"
           /\ seen[p].hist.gate = "verifyUsers"
           /\ Correct(p))
          => /\ Outcome(sent'.json) = "Success"
             /\ sent'.json.user_id = seen[p].row.id]_vars

(* C2: login decides lookup, then password, then verification: for a row   *)
(* with verified false the answer is NotVerified exactly when the password *)
(* is the correct one and InvalidPassword when it is not; for an absent    *)
(* username it is UserNotFound; the four outcomes have distinct statuses.  *)
C2_LoginOrder ==
    [][\A p \in Procs :
          (Answers(p, "login") /\ awaited[p].state = "fulfilled")
          => /\ seen[p].row = null => Outcome(sent'.json) = "UserNotFound"
             /\ (seen[p].row # null /\ ~seen[p].row.verified)
                => /\ Correct(p) <=> Outcome(sent'.json) = "NotVerified"
                   /\ ~Correct(p) => Outcome(sent'.json) = "InvalidPassword"
             /\ Outcome(sent'.json) \in LoginOutcomes
             /\ \A st \in {404, 401, 403} :
                   sent'.json.status = st
                   <=> Outcome(sent'.json) = Outcome(Json(st, ""))]_vars

(* C3: updateUserById on an existing user leaves verified false whatever   *)
(* is supplied, and a login with the correct password then answers         *)
(* NotVerified until verifyUsers names the user.                           *)
C3_UpdateResetsGate ==
    [][/\ \A i \in Ids, d \in UpdatedInfo :
             (updateUserById(i, d, FALSE) /\ ~ret'.threw)
             => \A u \in user_list' : u.id = i => ~u.verified
       /\ \A p \in Procs :
             (/\ AnswersFound(p)
              /\ seen[p].hist.gate = "updateUserById"
              /\ Correct(p))
             => Outcome(sent'.json) = "NotVerified"]_vars

(* C7: updatePassword replaces only the password hash of that user, and    *)
(* afterwards the password check of login accepts the new plaintext and    *)
(* rejects the other ones.                                                 *)
C7_UpdatePassword ==
    [][/\ \A i \in Ids, w \in Plain, s \in Salts :
             updatePassword(i, w, s, FALSE)
             => /\ IdsOf(user_list') = IdsOf(user_list)
                /\ \A u \in user_list :
                      RowOf(user_list', u.id) =
                        IF u.id = i
                        THEN [u EXCEPT !.user_password =
                                          RowOf(user_list', i).user_password]
                        ELSE u
       /\ \A p \in Procs :
             (AnswersFound(p) /\ seen[p].hist.by = "updatePassword")
             => /\ Correct(p)
                   => Outcome(sent'.json) \in {"NotVerified", "Success"}
                /\ body[p].password \in Plain \ {seen[p].hist.pw}
                   => Outcome(sent'.json) = "InvalidPassword"]_vars

C1_Witness ==
    /\ sent # null
    /\ Outcome(sent.json) = "InvalidPassword"
    /\ \E u \in user_list : u.verified /\ hist[u.id].by = "createUser"

-----------------------------------------------------------------------------
(* C4: updateUserById is a coalesce merge: each of first name, the two     *)
(* surnames and email takes the supplied value when there is one and       *)
(* keeps its value otherwise; username, id and password hash of that user  *)
(* and every other row are unchanged; an unknown id reports 0 rows and     *)
(* changes no row.                                                         *)
C4_CoalesceMerge ==
    [][\A i \in Ids, d \in UpdatedInfoProfile :
          (~ret'.threw /\ updateUserById(i, d, FALSE))
          => LET hit == {u \in user_list : u.id = i}
             IN  /\ IdsOf(user_list') = IdsOf(user_list)
                 /\ Cardinality(user_list') = Cardinality(user_list)
                 /\ ret'.rowCount = 0 <=> hit = {}
                 /\ hit = {} => user_list' = user_list
                 /\ \A u \in user_list :
                       LET v == RowOf(user_list', u.id)
                       IN  IF u.id # i THEN v = u
                           ELSE /\ v.username = u.username
                                /\ v.user_password = u.user_password
                                /\ d.first_name # NULL
                                   => v.first_name = d.first_name
                                /\ d.first_name = NULL
                                   => v.first_name = u.first_name
                                /\ d.last_name1 # NULL
                                   => v.last_name_1 = d.last_name1
                                /\ d.last_name1 = NULL
                                   => v.last_name_1 = u.last_name_1
                                /\ d.last_name2 # NULL
                                   => v.last_name_2 = d.last_name2
                                /\ d.last_name2 = NULL
                                   => v.last_name_2 = u.last_name_2
                                /\ d.email # NULL => v.email = d.email
                                /\ d.email = NULL => v.email = u.email]_vars

\* An update of one of two accounts has just changed its first name only.
C4_Witness ==
    /\ ret = Result(1)
    /\ Cardinality(user_list) = 2
    /\ \E u \in user_list :
          /\ hist[u.id].gate = "updateUserById"
          /\ u.first_name = "Eva" /\ u.last_name_1 = "Gil"

(* C5: verifyUsers sets verified for exactly the existing rows whose       *)
(* username is in the array; names that match no row raise no error and    *)
(* create no row; every other row and field is unchanged.                  *)
C5_BulkVerifyExact ==
    [][\A us \in SUBSET Usernames :
          verifyUsers(us, FALSE)
          => /\ ret' = void
             /\ IdsOf(user_list') = IdsOf(user_list)
             /\ Cardinality(user_list') = Cardinality(user_list)
             /\ \A u \in user_list :
                   RowOf(user_list', u.id) =
                     IF u.username \in us THEN [u EXCEPT !.verified = TRUE]
                     ELSE u]_vars

\* A batch has just verified one account and left the other unverified.
C5_Witness ==
    /\ ret = void
    /\ \E u, v \in user_list :
          u.verified /\ hist[u.id].gate = "verifyUsers" /\ ~v.verified

(* C6: createUser stores verified = false whatever userData holds and the  *)
(* bcrypt hash of the plaintext, never the plaintext; after any createUser *)
(* and updatePassword calls no stored password is a plaintext.             *)
C6_HashedAtRest ==
    [][/\ \A u \in user_list' :
             /\ u.user_password \notin Plain
             /\ u.user_password # hist'[u.id].pw
             /\ verifyPassword(hist'[u.id].pw, u.user_password)
       /\ \A d \in UserDataAuth, s \in Salts :
             (~ret'.threw /\ createUser(d, s, FALSE))
             => \E row \in user_list' \ user_list :
                   /\ ~row.verified
                   /\ row.user_password # d.user_password
                   /\ verifyPassword(d.user_password, row.user_password)]_vars

\* One account still has its sign-up password, the other a replaced one.
C6_Witness ==
    \E u, v \in user_list :
       hist[u.id].by = "createUser" /\ hist[v.id].by = "updatePassword"

(* C8: checkAdmin answers IsAdmin exactly for the ids in admin_list and    *)
(* IsRegularUser for the others when the query succeeds; when it fails the *)
(* answer is an error, never IsRegularUser; a failed login lookup is an    *)
(* error too, never one of the four login outcomes; neither handler        *)
(* repeats its query.                                                      *)
C8_ErrorsSurface ==
    [][\A p \in Procs :
          /\ Answers(p, "admin")
             => /\ sent'.by = p
                /\ queries[p] = 1
                /\ IF awaited[p].state = "rejected"
                   THEN /\ Outcome(sent'.json) = "Error"
                        /\ sent'.json.status = 500
                   ELSE IF body[p].user_id \in admin_list
                   THEN Outcome(sent'.json) = "IsAdmin"
                   ELSE Outcome(sent'.json) = "IsRegularUser"
          /\ (Answers(p, "login") /\ awaited[p].state = "rejected")
             => /\ sent'.by = p
                /\ queries[p] = 1
                /\ Outcome(sent'.json) = "Error"
                /\ sent'.json.status = 500
          /\ queries'[p] <= 1]_vars

\* A role check has just answered with the error.
C8_Witness ==
    /\ sent # null
    /\ sent.json = Json(500, "Internal server error")

(* C9: verified is set to true only by verifyUsers: a row with verified    *)
(* true was named by a verifyUsers call after its creation and its last    *)
(* updateUserById; no other operation turns the flag on, and the handlers  *)
(* change no stored state.                                                 *)
C9_OnlyBulkVerify ==
    [][/\ \A u \in user_list' :
             u.verified => hist'[u.id].gate = "verifyUsers"
       /\ \A u \in user_list' :
             (u.verified /\ ~\E v \in user_list : v.id = u.id /\ v.verified)
             => \E us \in SUBSET Usernames :
                   u.username \in us /\ verifyUsers(us, FALSE)
       /\ (\E p \in Procs : pc'[p] # pc[p])
          => UNCHANGED <<user_list, admin_list, id_seq>>]_vars

\* A verified account whose password was replaced after verification.
C9_Witness ==
    \E u \in user_list : u.verified /\ hist[u.id].by = "updatePassword"

====
